---- MODULE Spec2Model ----
(***************************************************************************)
(* JSON codec of the insertion-ordered map (package v0_5_0, json.go).      *)
(*                                                                         *)
(* Byte strings are sequences of one-character strings.  The byte alphabet *)
(* of the model is: the structural bytes { } [ ] : , the double quote,     *)
(* space, the digits, '-', '.', and lower-case letters.  Strings hold no   *)
(* backslash, quote, control or HTML-special byte, so that a Go string and *)
(* its JSON encoding differ by the surrounding quotes only.                *)
(*                                                                         *)
(* Go values (keys and values of the map) are records of one shape:        *)
(*   t    the runtime type ("string", "*string", "int8", "*int8", "bool",  *)
(*        "func", "struct", or "nil" for the nil interface),               *)
(*   addr the address of a pointer (0 is the nil pointer, and the field is *)
(*        0 for every type that is no pointer),                            *)
(*   s    the string (or the pointee of a *string),                        *)
(*   n    the integer (or the pointee of a *int8); a bool is n = 0 or 1.   *)
(***************************************************************************)
EXTENDS Integers, Sequences, FiniteSets, TLC

Q == "\""

Digits == <<"0", "1", "2", "3", "4", "5", "6", "7", "8", "9">>

IsDigit(c) == \E i \in 1..10 : Digits[i] = c

DigitVal(c) == (CHOOSE i \in 1..10 : Digits[i] = c) - 1

IsSpace(c) == c = " "

(***************************************************************************)
(* Go values                                                               *)
(***************************************************************************)
GoVal(t, addr, s, n) == [t |-> t, addr |-> addr, s |-> s, n |-> n]

\* the zero value of the type t; that of the interface type any is the nil
\* interface
Zero(t) == GoVal(IF t = "any" THEN "nil" ELSE t, 0, <<>>, 0)

IsPointer(t) == t \in {"*string", "*int8"}

Elem(t) == IF t = "*string" THEN "string" ELSE "int8"

(***************************************************************************)
(* Errors: one record shape; NoErr is the nil error.                       *)
(***************************************************************************)
Err(type, offset, msg) == [type |-> type, Offset |-> offset, msg |-> msg]

NoErr == Err("nil", 0, "")

(***************************************************************************)
(* json.Marshal of the modelled types (encoding/json, as called by         *)
(* addJsonKey and addJsonValue).                                           *)
(***************************************************************************)
RECURSIVE FormatNat(_)
FormatNat(n) ==
  IF n < 10 THEN <<Digits[n + 1]>>
  ELSE Append(FormatNat(n \div 10), Digits[(n % 10) + 1])

FormatInt(n) == IF n < 0 THEN <<"-">> \o FormatNat(0 - n) ELSE FormatNat(n)

Quote(s) == <<Q>> \o s \o <<Q>>

NullText == <<"n", "u", "l", "l">>

TrueText == <<"t", "r", "u", "e">>

FalseText == <<"f", "a", "l", "s", "e">>

\* json.Marshal(v): [bs, err].
jsonMarshal(v) ==
  CASE v.t = "string"  -> [bs |-> Quote(v.s), err |-> NoErr]
    [] v.t = "*string" ->
         [bs |-> IF v.addr = 0 THEN NullText ELSE Quote(v.s), err |-> NoErr]
    [] v.t = "int8"    -> [bs |-> FormatInt(v.n), err |-> NoErr]
    [] v.t = "*int8"   ->
         [bs |-> IF v.addr = 0 THEN NullText ELSE FormatInt(v.n), err |-> NoErr]
    [] v.t = "bool"    ->
         [bs |-> IF v.n = 1 THEN TrueText ELSE FalseText, err |-> NoErr]
    [] v.t = "struct"  -> [bs |-> <<"{", "}">>, err |-> NoErr]
    [] v.t = "nil"     -> [bs |-> NullText, err |-> NoErr]
    [] OTHER           ->
         [bs |-> <<>>, err |-> Err("json.UnsupportedTypeError", 0, v.t)]

(***************************************************************************)
(* addJsonKey(buf, key): [buf, err].                                       *)
(***************************************************************************)
SupportedKeyType(t) == t \in {"string", "*string", "int8", "*int8", "bool"}

\* keyQuote without the nil check of the *string case
keyQuoteNoNil(key) == key.t \notin {"string", "*string"}

\* the value of the local variable quote after the type switch
keyQuote(key) ==
  CASE key.t = "string"  -> FALSE
    [] key.t = "*string" -> key.addr = 0
    [] OTHER             -> TRUE

addJsonKey(buf, key) ==
  IF ~SupportedKeyType(key.t)
  THEN [buf |-> buf, err |-> Err("UnsupportedKeyTypeError", 0, key.t)]
  ELSE LET m == jsonMarshal(key) IN
       IF m.err # NoErr THEN [buf |-> buf, err |-> m.err]
       ELSE IF keyQuote(key)
            THEN [buf |-> buf \o <<Q>> \o m.bs \o <<Q>>, err |-> NoErr]
            ELSE [buf |-> buf \o m.bs, err |-> NoErr]

addJsonValue(buf, val) ==
  LET m == jsonMarshal(val) IN
  IF m.err # NoErr THEN [buf |-> buf, err |-> m.err]
  ELSE [buf |-> buf \o m.bs, err |-> NoErr]

(***************************************************************************)
(* The ordered map is the sequence of its entries [key, val] in insertion  *)
(* order: Front() is the first entry and Next() the following one.         *)
(***************************************************************************)
Entry(k, v) == [key |-> k, val |-> v]

HasKey(om, k) == \E i \in 1..Len(om) : om[i].key = k

\* Map.Store(key, val): replace the value in place, or append a new entry.
Store(om, k, v) ==
  IF HasKey(om, k)
  THEN [i \in 1..Len(om) |-> IF om[i].key = k THEN Entry(k, v) ELSE om[i]]
  ELSE Append(om, Entry(k, v))

(***************************************************************************)
(* Map.MarshalJSON: [bytes, isnil, err, seen, frags]; seen counts the      *)
(* entries whose key was handed to addJsonKey and frags lists the bytes    *)
(* addJsonKey wrote for each of them.                                      *)
(***************************************************************************)
\* MarshalFail returning the buffer written so far with the error
MarshalFailPartial(e, i, frags) ==
  [bytes |-> <<"{">>, isnil |-> FALSE, err |-> e, seen |-> i,
   frags |-> frags]

MarshalFail(e, i, frags) ==
  [bytes |-> <<>>, isnil |-> TRUE, err |-> e, seen |-> i, frags |-> frags]

\* Separator writing the comma before the first entry too
SeparatorAlways(i) == <<",">>

\* the separator written before the i-th entry
Separator(i) == IF i = 1 THEN <<>> ELSE <<",">>

RECURSIVE marshalEntries(_, _, _, _)
marshalEntries(om, i, buf, frags) ==
  IF i > Len(om)
  THEN [bytes |-> buf \o <<"}">>, isnil |-> FALSE, err |-> NoErr,
        seen |-> Len(om), frags |-> frags]
  ELSE LET b0 == buf \o Separator(i)
           k == addJsonKey(b0, om[i].key)
           f == Append(frags, SubSeq(k.buf, Len(b0) + 1, Len(k.buf)))
       IN IF k.err # NoErr THEN MarshalFail(k.err, i, frags)
          ELSE LET v == addJsonValue(k.buf \o <<":">>, om[i].val) IN
               IF v.err # NoErr THEN MarshalFail(v.err, i, f)
               ELSE marshalEntries(om, i + 1, v.buf, f)

MarshalJSON(om) == marshalEntries(om, 1, <<"{">>, <<>>)

(***************************************************************************)
(* The scanner of encoding/json, as a recogniser of one JSON value that    *)
(* starts at buf[i]: [st, end] with st = "ok" (the value ends just before  *)
(* buf[end]), "error" (a byte no JSON value has at its place), "eof" (the  *)
(* input ends inside the value) or "depth" (the nesting is too deep).      *)
(***************************************************************************)
ScanOk(e) == [st |-> "ok", end |-> e]

ScanError == [st |-> "error", end |-> 0]

ScanEof == [st |-> "eof", end |-> 0]

\* the input ends inside a literal or a number, at a place where the
\* scanner does not accept the space that stands for the end of the input
ScanEofIn == [st |-> "eofin", end |-> 0]

\* an array or an object opens deeper than the scanner allows
ScanDepth == [st |-> "depth", end |-> 0]

RECURSIVE SkipSpace(_, _)
SkipSpace(buf, i) ==
  IF i <= Len(buf) /\ IsSpace(buf[i]) THEN SkipSpace(buf, i + 1) ELSE i

RECURSIVE SkipDigits(_, _)
SkipDigits(buf, i) ==
  IF i <= Len(buf) /\ IsDigit(buf[i]) THEN SkipDigits(buf, i + 1) ELSE i

\* i is the place after the opening quote
RECURSIVE scanString(_, _)
scanString(buf, i) ==
  IF i > Len(buf) THEN ScanEof
  ELSE IF buf[i] = Q THEN ScanOk(i + 1)
  ELSE scanString(buf, i + 1)

\* at least one digit at i, then the rest of a run of digits
scanDigits1(buf, i) ==
  IF i > Len(buf) THEN ScanEofIn
  ELSE IF ~IsDigit(buf[i]) THEN ScanError
  ELSE ScanOk(SkipDigits(buf, i))

scanExponent(buf, i) ==
  IF i <= Len(buf) /\ buf[i] \in {"e", "E"}
  THEN IF i + 1 <= Len(buf) /\ buf[i + 1] \in {"+", "-"}
       THEN scanDigits1(buf, i + 2)
       ELSE scanDigits1(buf, i + 1)
  ELSE ScanOk(i)

scanFraction(buf, i) ==
  IF i <= Len(buf) /\ buf[i] = "."
  THEN LET f == scanDigits1(buf, i + 1) IN
       IF f.st = "ok" THEN scanExponent(buf, f.end) ELSE f
  ELSE scanExponent(buf, i)

\* buf[i] is the first digit of the integer part
scanInteger(buf, i) ==
  IF i > Len(buf) THEN ScanEofIn
  ELSE IF ~IsDigit(buf[i]) THEN ScanError
  ELSE IF buf[i] = "0" THEN scanFraction(buf, i + 1)
  ELSE scanFraction(buf, SkipDigits(buf, i))

scanNumber(buf, i) ==
  IF buf[i] = "-" THEN scanInteger(buf, i + 1) ELSE scanInteger(buf, i)

RECURSIVE scanLiteral(_, _, _, _)
scanLiteral(buf, i, text, j) ==
  IF j > Len(text) THEN ScanOk(i)
  ELSE IF i > Len(buf) THEN ScanEofIn
  ELSE IF buf[i] # text[j] THEN ScanError
  ELSE scanLiteral(buf, i + 1, text, j + 1)

\* scanner.pushParseState: the nesting an array or an object may open
MaxNestingDepth == 10000

RECURSIVE scanValue(_, _, _), scanElements(_, _, _), scanMembers(_, _, _)
\* the value at buf[i], inside n open arrays and objects; the byte that
\* opens one more than MaxNestingDepth is an error where it stands
scanValue(buf, i, n) ==
  LET j == SkipSpace(buf, i) IN
  IF j > Len(buf) THEN ScanEof
  ELSE LET c == buf[j] IN
       CASE c = "{" ->
              LET k == SkipSpace(buf, j + 1) IN
              IF n + 1 > MaxNestingDepth THEN ScanDepth
              ELSE IF k > Len(buf) THEN ScanEof
              ELSE IF buf[k] = "}" THEN ScanOk(k + 1)
              ELSE scanMembers(buf, k, n + 1)
         [] c = "[" ->
              LET k == SkipSpace(buf, j + 1) IN
              IF n + 1 > MaxNestingDepth THEN ScanDepth
              ELSE IF k > Len(buf) THEN ScanEof
              ELSE IF buf[k] = "]" THEN ScanOk(k + 1)
              ELSE scanElements(buf, k, n + 1)
         [] c = Q -> scanString(buf, j + 1)
         [] c = "-" \/ IsDigit(c) -> scanNumber(buf, j)
         [] c = "t" -> scanLiteral(buf, j, TrueText, 1)
         [] c = "f" -> scanLiteral(buf, j, FalseText, 1)
         [] c = "n" -> scanLiteral(buf, j, NullText, 1)
         [] OTHER -> ScanError

\* the elements of an array that is the n-th open one, from the first byte
\* of an element
scanElements(buf, i, n) ==
  LET v == scanValue(buf, i, n) IN
  IF v.st # "ok" THEN v
  ELSE LET k == SkipSpace(buf, v.end) IN
       IF k > Len(buf) THEN ScanEof
       ELSE IF buf[k] = "," THEN scanElements(buf, k + 1, n)
       ELSE IF buf[k] = "]" THEN ScanOk(k + 1)
       ELSE ScanError

\* the members of an object that is the n-th open one, from the first byte
\* of a key
scanMembers(buf, i, n) ==
  LET j == SkipSpace(buf, i) IN
  IF j > Len(buf) THEN ScanEof
  ELSE IF buf[j] # Q THEN ScanError
  ELSE LET s == scanString(buf, j + 1) IN
       IF s.st # "ok" THEN s
       ELSE LET c == SkipSpace(buf, s.end) IN
            IF c > Len(buf) THEN ScanEof
            ELSE IF buf[c] # ":" THEN ScanError
            ELSE LET v == scanValue(buf, c + 1, n) IN
                 IF v.st # "ok" THEN v
                 ELSE LET k == SkipSpace(buf, v.end) IN
                      IF k > Len(buf) THEN ScanEof
                      ELSE IF buf[k] = "," THEN scanMembers(buf, k + 1, n)
                      ELSE IF buf[k] = "}" THEN ScanOk(k + 1)
                      ELSE ScanError

(***************************************************************************)
(* Errors of encoding/json and io.  Their offsets are not modelled.        *)
(***************************************************************************)
JsonSyntaxError(msg) == Err("json.SyntaxError", -1, msg)

JsonTypeError(what) == Err("json.UnmarshalTypeError", -1, what)

IoEOF == Err("io.EOF", -1, "")

IoErrUnexpectedEOF == Err("io.ErrUnexpectedEOF", -1, "")

(***************************************************************************)
(* Storing a decoded JSON value into a Go variable of type t that holds    *)
(* cur (decodeState.value / literalStore): [val, err].  raw is one valid   *)
(* JSON value, possibly after spaces.  t is a type that is no pointer, or  *)
(* "any" for the empty interface.                                          *)
(***************************************************************************)
RECURSIVE natValue(_, _, _)
natValue(buf, i, e) ==
  IF e < i THEN 0 ELSE 10 * natValue(buf, i, e - 1) + DigitVal(buf[e])

(***************************************************************************)
(* strconv.ParseFloat(text, 64) fails with a range error when the number   *)
(* rounds to an infinity, that is when its magnitude is at least           *)
(* 2^1024 - 2^970, whose decimal digits are FloatHalfway.                  *)
(***************************************************************************)
FloatHalfway ==
  <<
    "1", "7", "9", "7", "6", "9", "3", "1", "3", "4", "8", "6",
    "2", "3", "1", "5", "8", "0", "7", "9", "3", "7", "2", "8",
    "9", "7", "1", "4", "0", "5", "3", "0", "3", "4", "1", "5",
    "0", "7", "9", "9", "3", "4", "1", "3", "2", "7", "1", "0",
    "0", "3", "7", "8", "2", "6", "9", "3", "6", "1", "7", "3",
    "7", "7", "8", "9", "8", "0", "4", "4", "4", "9", "6", "8",
    "2", "9", "2", "7", "6", "4", "7", "5", "0", "9", "4", "6",
    "6", "4", "9", "0", "1", "7", "9", "7", "7", "5", "8", "7",
    "2", "0", "7", "0", "9", "6", "3", "3", "0", "2", "8", "6",
    "4", "1", "6", "6", "9", "2", "8", "8", "7", "9", "1", "0",
    "9", "4", "6", "5", "5", "5", "5", "4", "7", "8", "5", "1",
    "9", "4", "0", "4", "0", "2", "6", "3", "0", "6", "5", "7",
    "4", "8", "8", "6", "7", "1", "5", "0", "5", "8", "2", "0",
    "6", "8", "1", "9", "0", "8", "9", "0", "2", "0", "0", "0",
    "7", "0", "8", "3", "8", "3", "6", "7", "6", "2", "7", "3",
    "8", "5", "4", "8", "4", "5", "8", "1", "7", "7", "1", "1",
    "5", "3", "1", "7", "6", "4", "4", "7", "5", "7", "3", "0",
    "2", "7", "0", "0", "6", "9", "8", "5", "5", "5", "7", "1",
    "3", "6", "6", "9", "5", "9", "6", "2", "2", "8", "4", "2",
    "9", "1", "4", "8", "1", "9", "8", "6", "0", "8", "3", "4",
    "9", "3", "6", "4", "7", "5", "2", "9", "2", "7", "1", "9",
    "0", "7", "4", "1", "6", "8", "4", "4", "4", "3", "6", "5",
    "5", "1", "0", "7", "0", "4", "3", "4", "2", "7", "1", "1",
    "5", "5", "9", "6", "9", "9", "5", "0", "8", "0", "9", "3",
    "0", "4", "2", "8", "8", "0", "1", "7", "7", "9", "0", "4",
    "1", "7", "4", "4", "9", "7", "7", "9", "2"
  >>

RECURSIVE SkipZeros(_, _)
SkipZeros(ds, i) ==
  IF i <= Len(ds) /\ ds[i] = "0" THEN SkipZeros(ds, i + 1) ELSE i

\* the digits ds, continued with zeros, are at least the digits hs, from
\* place i on
RECURSIVE DigitsAtLeast(_, _, _)
DigitsAtLeast(ds, hs, i) ==
  IF i > Len(hs) THEN TRUE
  ELSE LET d == IF i <= Len(ds) THEN DigitVal(ds[i]) ELSE 0
           h == DigitVal(hs[i])
       IN IF d # h THEN d > h ELSE DigitsAtLeast(ds, hs, i + 1)

\* the digits buf[i .. e-1] of an exponent, summed as readFloat sums them:
\* a digit is taken in only while the sum is below 10000
RECURSIVE expDigits(_, _, _, _)
expDigits(buf, i, e, acc) ==
  IF i >= e THEN acc
  ELSE expDigits(buf, i + 1, e,
                 IF acc < 10000 THEN acc * 10 + DigitVal(buf[i]) ELSE acc)

\* the exponent of the number text buf[i .. e-1], where i is the place
\* after its fraction
floatExponent(buf, i, e) ==
  IF i >= e THEN 0
  ELSE LET neg == buf[i + 1] = "-"
           f == IF buf[i + 1] \in {"+", "-"} THEN i + 2 ELSE i + 1
           n == expDigits(buf, f, e, 0)
       IN IF neg THEN 0 - n ELSE n

\* the digits that the decimal of strconv.ParseFloat keeps; the digits
\* of the integer part beyond them do not move its decimal point
DecimalDigits == 800

\* a number of the digits ds (the first is not zero) and the decimal
\* exponent a, that is ds[1].ds[2].. * 10^a, is beyond the range of float64
floatBeyond(ds, a) ==
  \/ a > 308
  \/ a = 308 /\ DigitsAtLeast(ds, FloatHalfway, 1)

\* the same for the digits ds with n of them before the decimal point and
\* the written exponent exp; z is the place of the first digit not zero
floatMagnitude(ds, z, n, exp) ==
  z <= Len(ds) /\ floatBeyond(SubSeq(ds, z, Len(ds)), n + exp - z)

\* the digits of the number text buf[f .. e-1] without its sign, where ie
\* is the place after its integer part and fe the place after its fraction
floatDigits(buf, f, ie, fe) ==
  SubSeq(buf, f, ie - 1)
  \o (IF fe > ie THEN SubSeq(buf, ie + 1, fe - 1) ELSE <<>>)

\* the place after the fraction of a number whose integer part ends
\* before ie
floatFractionEnd(buf, ie, e) ==
  IF ie < e /\ buf[ie] = "." THEN SkipDigits(buf, ie + 1) ELSE ie

\* the number text buf[f .. e-1] without its sign is beyond the range of
\* float64
floatParts(buf, f, ie, fe, e) ==
  floatMagnitude(floatDigits(buf, f, ie, fe),
                 SkipZeros(floatDigits(buf, f, ie, fe), 1),
                 IF ie - f > DecimalDigits THEN DecimalDigits ELSE ie - f,
                 floatExponent(buf, fe, e))

\* the same, after the places of its parts are found
floatUnsigned(buf, f, e) ==
  floatParts(buf, f, SkipDigits(buf, f),
             floatFractionEnd(buf, SkipDigits(buf, f), e), e)

\* the JSON number buf[i .. e-1] is beyond the range of float64
floatOverflows(buf, i, e) ==
  floatUnsigned(buf, IF buf[i] = "-" THEN i + 1 ELSE i, e)

\* some number of the JSON value buf[i .. e-1] is beyond the range of
\* float64: inside an array or an object decoded into any, the error of
\* the number is saved and the decoding goes on
RECURSIVE anyFloatOverflows(_, _, _)
anyFloatOverflows(buf, i, e) ==
  IF i >= e THEN FALSE
  ELSE IF buf[i] = Q
  THEN anyFloatOverflows(buf, scanString(buf, i + 1).end, e)
  ELSE IF buf[i] = "-" \/ IsDigit(buf[i])
  THEN \/ floatOverflows(buf, i, scanNumber(buf, i).end)
       \/ anyFloatOverflows(buf, scanNumber(buf, i).end, e)
  ELSE anyFloatOverflows(buf, i + 1, e)

MinInt8 == -128

MaxInt8 == 127

\* strconv.ParseInt(text, 10, 64) and reflect.Value.OverflowInt for int8,
\* on a JSON number text[i .. e-1]: [ok, n].
parseInt8(buf, i, e) ==
  LET neg == buf[i] = "-"
      f == IF neg THEN i + 1 ELSE i
  IN IF SkipDigits(buf, f) # e THEN [ok |-> FALSE, n |-> 0]
     ELSE IF e - f > 4 THEN [ok |-> FALSE, n |-> 0]
     ELSE LET m == natValue(buf, f, e - 1)
              n == IF neg THEN 0 - m ELSE m
          IN [ok |-> n >= MinInt8 /\ n <= MaxInt8, n |-> n]

\* the JSON value raw[j .. e-1] stored into v of type t holding cur:
\* [val, err]
unmarshalValue(t, raw, cur, j, e) ==
  LET c == raw[j]
      mismatch(what) == [val |-> cur, err |-> JsonTypeError(what)]
      stored(v) == [val |-> v, err |-> NoErr]
  IN CASE c = "n" ->
            IF t = "any" THEN stored(Zero("nil")) ELSE stored(cur)
       [] c \in {"t", "f"} ->
            IF t \in {"bool", "any"}
            THEN stored(GoVal("bool", 0, <<>>, IF c = "t" THEN 1 ELSE 0))
            ELSE mismatch("bool")
       [] c = Q ->
            IF t \in {"string", "any"}
            THEN stored(GoVal("string", 0, SubSeq(raw, j + 1, e - 2), 0))
            ELSE mismatch("string")
       [] c = "-" \/ IsDigit(c) ->
            IF t = "any"
            THEN IF floatOverflows(raw, j, e) THEN mismatch("number")
                 ELSE stored(GoVal("float64", 0, SubSeq(raw, j, e - 1), 0))
            ELSE IF t = "int8"
            THEN LET p == parseInt8(raw, j, e) IN
                 IF p.ok THEN stored(GoVal("int8", 0, <<>>, p.n))
                 ELSE mismatch("number")
            ELSE mismatch("number")
       [] OTHER ->
            \* an array or an object is stored whole into any; a number
            \* in it beyond float64 is the error
            IF t = "any"
            THEN [val |-> Zero(IF c = "[" THEN "[]any" ELSE "map[string]any"),
                  err |-> IF anyFloatOverflows(raw, j, e)
                          THEN JsonTypeError("number") ELSE NoErr]
            ELSE mismatch(IF c = "[" THEN "array" ELSE "object")

\* the same for the value that begins at raw[j]
unmarshalFrom(t, raw, cur, j) ==
  unmarshalValue(t, raw, cur, j, scanValue(raw, j, 0).end)

\* the valid JSON text raw stored into v of type t holding cur
unmarshalInto(t, raw, cur) == unmarshalFrom(t, raw, cur, SkipSpace(raw, 1))

\* json.Unmarshal after checkValid, whose scan of data gave r
checkedUnmarshal(t, data, cur, r) ==
  IF r.st = "depth"
  THEN [val |-> cur, err |-> JsonSyntaxError("exceeded max depth")]
  ELSE IF r.st = "eof"
  THEN [val |-> cur, err |-> JsonSyntaxError("unexpected end of JSON input")]
  ELSE IF r.st \in {"error", "eofin"}
  THEN [val |-> cur, err |-> JsonSyntaxError("invalid character")]
  ELSE IF SkipSpace(data, r.end) <= Len(data)
  THEN [val |-> cur,
        err |-> JsonSyntaxError("invalid character after top-level value")]
  ELSE unmarshalInto(t, data, cur)

\* json.Unmarshal(data, &v) for v of type t holding cur: [val, err].
jsonUnmarshal(t, data, cur) ==
  checkedUnmarshal(t, data, cur, scanValue(data, 1, 0))

(***************************************************************************)
(* json.Decoder over the input buf.  scanp is the place of the next unread *)
(* byte (from 1), so that InputOffset is scanp - 1; err is the sticky      *)
(* error dec.err.                                                          *)
(***************************************************************************)
NewDecoder ==
  [scanp |-> 1, tokenState |-> "tokenTopValue", tokenStack |-> <<>>,
   err |-> NoErr]

InputOffset(d) == d.scanp - 1

tokenValueAllowed(d) ==
  d.tokenState \in {"tokenTopValue", "tokenArrayStart", "tokenArrayValue",
                    "tokenObjectValue"}

tokenValueEnd(d) ==
  CASE d.tokenState \in {"tokenArrayStart", "tokenArrayValue"} ->
         [d EXCEPT !.tokenState = "tokenArrayComma"]
    [] d.tokenState = "tokenObjectValue" ->
         [d EXCEPT !.tokenState = "tokenObjectComma"]
    [] OTHER -> d

\* Decoder.peek: [d, eof, c]
peek(d, buf) ==
  LET i == SkipSpace(buf, d.scanp) IN
  IF i > Len(buf) THEN [d |-> d, eof |-> TRUE, c |-> ""]
  ELSE [d |-> [d EXCEPT !.scanp = i], eof |-> FALSE, c |-> buf[i]]

\* Decoder.tokenPrepareForDecode: [d, err]
tokenPrepareForDecode(d, buf) ==
  IF d.tokenState \in {"tokenArrayComma", "tokenObjectColon"}
  THEN LET p == peek(d, buf)
           want == IF d.tokenState = "tokenArrayComma" THEN "," ELSE ":"
           msg == IF d.tokenState = "tokenArrayComma"
                  THEN "expected comma after array element"
                  ELSE "expected colon after object key"
           next == IF d.tokenState = "tokenArrayComma"
                   THEN "tokenArrayValue" ELSE "tokenObjectValue"
       IN IF p.eof THEN [d |-> p.d, err |-> IoEOF]
          ELSE IF p.c # want
          THEN [d |-> p.d, err |-> JsonSyntaxError(msg)]
          ELSE [d |-> [p.d EXCEPT !.scanp = p.d.scanp + 1,
                                  !.tokenState = next],
                err |-> NoErr]
  ELSE [d |-> d, err |-> NoErr]

\* readValue after the scan of the value at d.scanp gave r
readScanned(d, buf, r) ==
  CASE r.st = "ok" -> [n |-> r.end - d.scanp, err |-> NoErr]
    [] r.st = "error" -> [n |-> 0, err |-> JsonSyntaxError("invalid character")]
    [] r.st = "depth" -> [n |-> 0, err |-> JsonSyntaxError("exceeded max depth")]
    [] OTHER ->
         [n |-> 0,
          err |-> IF SkipSpace(buf, d.scanp) <= Len(buf)
                  THEN IoErrUnexpectedEOF ELSE IoEOF]

\* Decoder.readValue: [n, err]; a failure is kept in dec.err by Decode below
readValue(d, buf) == readScanned(d, buf, scanValue(buf, d.scanp, 0))

\* Decode after the value was read and stored: d1 is the decoder before
\* the n bytes of the value, u the outcome of storing it
decodeStored(d1, n, u) ==
  [d |-> tokenValueEnd([d1 EXCEPT !.scanp = @ + n]),
   val |-> u.val, err |-> u.err]

\* Decode after readValue returned r for the decoder d1
decodeRead(d1, buf, t, cur, r) ==
  IF r.err # NoErr
  THEN [d |-> [d1 EXCEPT !.err = r.err], val |-> cur, err |-> r.err]
  ELSE decodeStored(d1, r.n,
                    unmarshalInto(t, SubSeq(buf, d1.scanp,
                                            d1.scanp + r.n - 1), cur))

\* Decode after tokenPrepareForDecode returned p
decodePrepared(buf, t, cur, p) ==
  IF p.err # NoErr THEN [d |-> p.d, val |-> cur, err |-> p.err]
  ELSE IF ~tokenValueAllowed(p.d)
  THEN [d |-> p.d, val |-> cur,
        err |-> JsonSyntaxError("not at beginning of value")]
  ELSE decodeRead(p.d, buf, t, cur, readValue(p.d, buf))

\* Decoder.Decode(&v) for v of type t holding cur: [d, val, err]
Decode(d, buf, t, cur) ==
  IF d.err # NoErr THEN [d |-> d, val |-> cur, err |-> d.err]
  ELSE decodePrepared(buf, t, cur, tokenPrepareForDecode(d, buf))

Delim(c) == GoVal("json.Delim", 0, <<c>>, 0)

TokenFail(d, e) == [d |-> d, tok |-> Zero("nil"), err |-> e]

TokenError(d) == TokenFail(d, JsonSyntaxError("invalid character (token)"))

\* the decoder after a closing bracket: the state is popped off the stack
popState(d) ==
  tokenValueEnd([d EXCEPT !.scanp = @ + 1,
                          !.tokenState = d.tokenStack[Len(d.tokenStack)],
                          !.tokenStack = SubSeq(d.tokenStack, 1,
                                                Len(d.tokenStack) - 1)])

pushState(d, st) ==
  [d EXCEPT !.scanp = @ + 1,
            !.tokenStack = Append(d.tokenStack, d.tokenState),
            !.tokenState = st]

\* Decoder.Token: [d, tok, err]
RECURSIVE Token(_, _)
Token(d0, buf) ==
  LET p == peek(d0, buf)
      d == p.d
      c == p.c
      \* r is what Decode returned for the string of an object key
      keyString(r) ==
        IF r.err # NoErr
        THEN TokenFail([r.d EXCEPT !.tokenState = d.tokenState], r.err)
        ELSE [d |-> [r.d EXCEPT !.tokenState = "tokenObjectColon"],
              tok |-> r.val, err |-> NoErr]
      \* r is what Decode returned for a value
      value(r) ==
        IF r.err # NoErr THEN TokenFail(r.d, r.err)
        ELSE [d |-> r.d, tok |-> r.val, err |-> NoErr]
  IN IF p.eof THEN TokenFail(d, IoEOF)
     ELSE CASE c = "[" ->
                 IF ~tokenValueAllowed(d) THEN TokenError(d)
                 ELSE [d |-> pushState(d, "tokenArrayStart"),
                       tok |-> Delim("["), err |-> NoErr]
            [] c = "]" ->
                 IF d.tokenState \notin {"tokenArrayStart", "tokenArrayComma"}
                 THEN TokenError(d)
                 ELSE [d |-> popState(d), tok |-> Delim("]"), err |-> NoErr]
            [] c = "{" ->
                 IF ~tokenValueAllowed(d) THEN TokenError(d)
                 ELSE [d |-> pushState(d, "tokenObjectStart"),
                       tok |-> Delim("{"), err |-> NoErr]
            [] c = "}" ->
                 IF d.tokenState \notin {"tokenObjectStart", "tokenObjectComma"}
                 THEN TokenError(d)
                 ELSE [d |-> popState(d), tok |-> Delim("}"), err |-> NoErr]
            [] c = ":" ->
                 IF d.tokenState # "tokenObjectColon" THEN TokenError(d)
                 ELSE Token([d EXCEPT !.scanp = @ + 1,
                                      !.tokenState = "tokenObjectValue"], buf)
            [] c = "," ->
                 IF d.tokenState = "tokenArrayComma"
                 THEN Token([d EXCEPT !.scanp = @ + 1,
                                      !.tokenState = "tokenArrayValue"], buf)
                 ELSE IF d.tokenState = "tokenObjectComma"
                 THEN Token([d EXCEPT !.scanp = @ + 1,
                                      !.tokenState = "tokenObjectKey"], buf)
                 ELSE TokenError(d)
            [] c = Q /\ d.tokenState \in {"tokenObjectStart", "tokenObjectKey"} ->
                 keyString(Decode([d EXCEPT !.tokenState = "tokenTopValue"],
                                  buf, "string", Zero("string")))
            [] OTHER ->
                 IF ~tokenValueAllowed(d) THEN TokenError(d)
                 ELSE value(Decode(d, buf, "any", Zero("nil")))

(***************************************************************************)
(* Map.UnmarshalJSON for a map of key type K and value type V.  heap is    *)
(* the number of pointers allocated so far: a new pointer gets the next    *)
(* address.  The result is [om, err, heap, depth, offset, tokens]: the     *)
(* map and the returned error, the decoder's depth and input offset on     *)
(* return, and the number of successful Token calls.                       *)
(***************************************************************************)
SyntaxError(offset, msg) == Err("SyntaxError", offset, msg)

MsgNoStart == "The input JSON does not start with '{'"

MsgNoEnd == "The input JSON does not end with '}'"

MsgInvalidBrace == "Invalid character '{'"

\* the type carried by the UnsupportedKeyTypeError of decode:
\* reflect.TypeOf of the zero K, which is nil for an interface type
ZeroKeyType(K) == IF K = "any" THEN "nil" ELSE K

\* decodePointerKey giving the nil key for the token "null"
decodePointerKeyNil(K, tok, heap) ==
  LET pointer(u) ==
        [key |-> GoVal(K, heap + 1, <<>>, u.val.n), err |-> u.err,
         heap |-> heap + 1]
  IN IF tok.s = NullText
     THEN [key |-> Zero(K), err |-> NoErr, heap |-> heap]
     ELSE pointer(jsonUnmarshal(Elem(K), tok.s, Zero(Elem(K))))

\* lines 184-191: the key for a K that is a pointer to a scalar: the
\* pointee is allocated first and the token is parsed into it
decodePointerKey(K, tok, heap) ==
  LET \* u is what json.Unmarshal returned for the new pointee
      pointer(u) ==
        [key |-> GoVal(K, heap + 1, <<>>, u.val.n), err |-> u.err,
         heap |-> heap + 1]
  IN pointer(jsonUnmarshal(Elem(K), tok.s, Zero(Elem(K))))

\* decodeKey without the test for "null" of the *string case
decodeKeyNoNull(K, tok, heap) ==
  IF K = "*string" /\ tok.t = "string"
  THEN [key |-> GoVal(K, heap + 1, tok.s, 0), err |-> NoErr,
        heap |-> heap + 1]
  ELSE [key |-> Zero(K), err |-> Err("panic", 0, tok.t), heap |-> heap]

\* lines 167-194: the key of type K for the key token tok: [key, err, heap]
decodeKey(K, tok, heap) ==
  LET \* u is what json.Unmarshal returned for the key
      parsed(u) == [key |-> u.val, err |-> u.err, heap |-> heap]
  IN
  CASE SupportedKeyType(K) /\ tok.t # "string" ->
         \* tok.(string) and any(tok).(K) panic on a token that is no string
         [key |-> Zero(K), err |-> Err("panic", 0, tok.t), heap |-> heap]
    [] K = "string" -> [key |-> tok, err |-> NoErr, heap |-> heap]
    [] K = "*string" ->
         IF tok = GoVal("string", 0, NullText, 0)
         THEN [key |-> Zero(K), err |-> NoErr, heap |-> heap]
         ELSE [key |-> GoVal(K, heap + 1, tok.s, 0), err |-> NoErr,
               heap |-> heap + 1]
    [] K \in {"int8", "bool"} ->
         parsed(jsonUnmarshal(K, tok.s, Zero(K)))
    [] K = "*int8" ->
         decodePointerKey(K, tok, heap)
    [] OTHER ->
         [key |-> Zero(K),
          err |-> Err("*UnsupportedKeyTypeError", 0, ZeroKeyType(K)),
          heap |-> heap]

\* The locals of a call of UnmarshalJSON inside the token loop, with a log
\* of the call: tokens counts the tokens read, keys the key tokens handed
\* to decodeKey, vals the calls of dec.Decode(&val), stored lists the pairs
\* handed to Store, valErr is the first error dec.Decode(&val) returned and
\* valErrAt the number of the Decode call that returned it, toks lists the
\* key tokens, minDepth is the least depth and closes counts the '}' tokens.
LoopState(om, heap, d) ==
  [om |-> om, heap |-> heap, depth |-> 0, d |-> d, tokens |-> 1, keys |-> 0,
   vals |-> 0, stored |-> <<>>, valErr |-> NoErr, valErrAt |-> 0,
   toks |-> <<>>, minDepth |-> 0, closes |-> 0]

\* the outcome of a call: the error returned at the return statement site
Return(st, e, site) ==
  [om |-> st.om, err |-> e, heap |-> st.heap, depth |-> st.depth,
   offset |-> InputOffset(st.d), tokens |-> st.tokens, keys |-> st.keys,
   vals |-> st.vals, stored |-> st.stored, valErr |-> st.valErr,
   valErrAt |-> st.valErrAt, toks |-> st.toks, minDepth |-> st.minDepth,
   closes |-> st.closes, site |-> site]

\* afterLoop without the test of depth
afterLoopNoTest(st) == Return(st, NoErr, "ok")

\* afterLoop testing depth > 0
afterLoopStrict(st) ==
  IF st.depth > 0
  THEN Return(st, SyntaxError(InputOffset(st.d), MsgNoEnd), "end")
  ELSE Return(st, NoErr, "ok")

\* lines 201-207: after the loop
afterLoop(st) ==
  IF st.depth >= 0
  THEN Return(st, SyntaxError(InputOffset(st.d), MsgNoEnd), "end")
  ELSE Return(st, NoErr, "ok")

\* storeValue keeping the value of a key the map holds already
storeValueKeepFirst(V, buf, st, key, heap) ==
  LET store(v) ==
        [st EXCEPT !.om = IF HasKey(st.om, key) THEN @
                          ELSE Store(st.om, key, v.val),
                   !.heap = heap,
                   !.d = v.d,
                   !.vals = @ + 1,
                   !.stored = Append(@, Entry(key, v.val)),
                   !.valErr = IF @ = NoErr THEN v.err ELSE @,
                   !.valErrAt = IF st.valErr = NoErr /\ v.err # NoErr
                                THEN st.vals + 1 ELSE @]
  IN store(Decode(st.d, buf, V, Zero(V)))

\* lines 195-197: decode the value that follows the key token and store
\* the pair; the error of dec.Decode is dropped
storeValue(V, buf, st, key, heap) ==
  LET \* v is what dec.Decode(&val) returned
      store(v) ==
        [st EXCEPT !.om = Store(st.om, key, v.val),
                   !.heap = heap,
                   !.d = v.d,
                   !.vals = @ + 1,
                   !.stored = Append(@, Entry(key, v.val)),
                   !.valErr = IF @ = NoErr THEN v.err ELSE @,
                   !.valErrAt = IF st.valErr = NoErr /\ v.err # NoErr
                                THEN st.vals + 1 ELSE @]
  IN store(Decode(st.d, buf, V, Zero(V)))

\* keyToken without the test of depth
keyTokenAnyDepth(K, V, buf, st, tok) ==
  LET s1 == [st EXCEPT !.keys = @ + 1, !.toks = Append(@, tok)]
      decoded(k) ==
        IF k.err # NoErr THEN [st |-> s1, err |-> k.err]
        ELSE [st |-> storeValue(V, buf, s1, k.key, k.heap), err |-> NoErr]
  IN decoded(decodeKey(K, tok, st.heap))

\* keyToken dropping the error of the key parser
keyTokenNoCheck(K, V, buf, st, tok) ==
  LET s1 == [st EXCEPT !.keys = @ + 1, !.toks = Append(@, tok)]
      decoded(k) ==
        [st |-> storeValue(V, buf, s1, k.key, k.heap), err |-> NoErr]
  IN IF st.depth # 0 THEN [st |-> st, err |-> NoErr]
     ELSE decoded(decodeKey(K, tok, st.heap))

\* lines 166-198: a token that is no delimiter
keyToken(K, V, buf, st, tok) ==
  LET s1 == [st EXCEPT !.keys = @ + 1, !.toks = Append(@, tok)]
      \* k is the key and the error of the key switch
      decoded(k) ==
        IF k.err # NoErr THEN [st |-> s1, err |-> k.err]
        ELSE [st |-> storeValue(V, buf, s1, k.key, k.heap), err |-> NoErr]
  IN IF st.depth # 0 THEN [st |-> st, err |-> NoErr]
     ELSE decoded(decodeKey(K, tok, st.heap))

\* lines 144-199: the token loop
RECURSIVE unmarshalLoop(_, _, _, _)
unmarshalLoop(K, V, buf, st) ==
  LET \* k is the outcome of the key token
      key(k) ==
        IF k.err # NoErr THEN Return(k.st, k.err, "key")
        ELSE unmarshalLoop(K, V, buf, k.st)
      \* t is what dec.Token returned; s0 and s1 are the locals after it,
      \* before and after the token is counted
      token(t, s0, s1) ==
        IF t.err = IoEOF THEN afterLoop(s0)
        ELSE IF t.err # NoErr THEN Return(s0, t.err, "token")
        ELSE IF t.tok.t = "json.Delim"
        THEN IF t.tok.s = <<"{">>
             THEN Return(s1, SyntaxError(InputOffset(t.d), MsgInvalidBrace),
                         "brace")
             ELSE IF t.tok.s = <<"}">>
             THEN unmarshalLoop(K, V, buf,
                                [s1 EXCEPT !.depth = @ - 1,
                                           !.closes = @ + 1,
                                           !.minDepth = IF st.depth - 1 < @
                                                        THEN st.depth - 1
                                                        ELSE @])
             ELSE unmarshalLoop(K, V, buf, s1)
        ELSE key(keyToken(K, V, buf, s1, t.tok))
      read(t) ==
        token(t, [st EXCEPT !.d = t.d],
              [st EXCEPT !.d = t.d, !.tokens = @ + 1])
  IN read(Token(st.d, buf))

\* UnmarshalJSON without the test of the first token
UnmarshalJSONAnyStart(K, V, om, data, heap) ==
  LET first(t, s0) ==
        IF t.err = IoEOF THEN Return(s0, NoErr, "empty")
        ELSE IF t.err # NoErr THEN Return(s0, t.err, "token")
        ELSE unmarshalLoop(K, V, data, LoopState(om, heap, t.d))
      read(t) == first(t, [LoopState(om, heap, t.d) EXCEPT !.tokens = 0])
  IN read(Token(NewDecoder, data))

\* UnmarshalJSON returning io.EOF for an input without a token
UnmarshalJSONEofError(K, V, om, data, heap) ==
  LET first(t, s0) ==
        IF t.err # NoErr THEN Return(s0, t.err, "token")
        ELSE IF t.tok # Delim("{")
        THEN Return(LoopState(om, heap, t.d), SyntaxError(0, MsgNoStart),
                    "start")
        ELSE unmarshalLoop(K, V, data, LoopState(om, heap, t.d))
      read(t) == first(t, [LoopState(om, heap, t.d) EXCEPT !.tokens = 0])
  IN read(Token(NewDecoder, data))

\* lines 118-208
UnmarshalJSON(K, V, om, data, heap) ==
  LET \* t is what the first dec.Token returned; s0 holds the locals when
      \* no token was read
      first(t, s0) ==
        IF t.err = IoEOF THEN Return(s0, NoErr, "empty")
        ELSE IF t.err # NoErr THEN Return(s0, t.err, "token")
        ELSE IF t.tok # Delim("{")
        THEN Return(LoopState(om, heap, t.d), SyntaxError(0, MsgNoStart),
                    "start")
        ELSE unmarshalLoop(K, V, data, LoopState(om, heap, t.d))
      read(t) == first(t, [LoopState(om, heap, t.d) EXCEPT !.tokens = 0])
  IN read(Token(NewDecoder, data))

(***************************************************************************)
(* The program: a map of key type K and value type V is built with Store,  *)
(* then encoded with MarshalJSON or decoded into with UnmarshalJSON.  The  *)
(* output of MarshalJSON may be decoded into a new, empty map.             *)
(***************************************************************************)
VARIABLES
  K,      \* the key type of the map
  V,      \* the value type of the map
  om,     \* the map: its entries in insertion order
  heap,   \* the number of pointers allocated so far
  op,     \* the last call: "New", "Store", "MarshalJSON", "UnmarshalJSON"
  pre,    \* the map UnmarshalJSON was called on, as it was before the call
  data,   \* the input of the last UnmarshalJSON
  out,    \* the result of the last MarshalJSON, and the map it encoded
  res     \* the result of the last UnmarshalJSON

vars == <<K, V, om, heap, op, pre, data, out, res>>

MaxEntries == 2

MaxMembers == 2

Types ==
  {<<"string", "int8">>, <<"string", "any">>, <<"*string", "string">>,
   <<"int8", "string">>, <<"*int8", "string">>, <<"bool", "int8">>,
   <<"struct", "int8">>, <<"any", "string">>}

Str(s) == GoVal("string", 0, s, 0)

Int8(n) == GoVal("int8", 0, <<>>, n)

Bool(b) == GoVal("bool", 0, <<>>, IF b THEN 1 ELSE 0)

\* the keys a caller stores: values of type k; a pointer is nil, a pointer
\* that is a key already, or a new one
StoreKeys(k, m, h) ==
  CASE k = "string"  -> {Str(<<"a">>), Str(<<"b">>)}
    [] k = "*string" ->
         {Zero(k)} \cup {m[i].key : i \in 1..Len(m)}
         \cup {GoVal(k, h + 1, s, 0) : s \in {<<"a">>, NullText}}
    [] k = "int8"    -> {Int8(7), Int8(-1)}
    [] k = "*int8"   ->
         {Zero(k)} \cup {m[i].key : i \in 1..Len(m)}
         \cup {GoVal(k, h + 1, <<>>, 7)}
    [] k = "bool"    -> {Bool(TRUE), Bool(FALSE)}
    [] k = "struct"  -> {Zero("struct")}
    [] OTHER         -> {Str(<<"a">>), Zero("struct"), Zero("nil")}

StoreValues(v) ==
  CASE v = "int8"   -> {Int8(1), Int8(2)}
    [] v = "string" -> {Str(<<"s">>)}
    [] OTHER        -> {Int8(1), Zero("func")}

NoOut == [bytes |-> <<>>, isnil |-> TRUE, err |-> NoErr, seen |-> 0,
          frags |-> <<>>, src |-> <<>>]

NoRes ==
  [err |-> NoErr, depth |-> 0, offset |-> 0, tokens |-> 0, keys |-> 0,
   vals |-> 0, stored |-> <<>>, valErr |-> NoErr, valErrAt |-> 0,
   toks |-> <<>>, minDepth |-> 0, closes |-> 0, site |-> ""]

Init ==
  /\ \E t \in Types : K = t[1] /\ V = t[2]
  /\ om = <<>>
  /\ heap = 0
  /\ op = "New"
  /\ pre = <<>>
  /\ data = <<>>
  /\ out = NoOut
  /\ res = NoRes

\* om.Store(k, v) by the caller
DoStore ==
  /\ op \in {"New", "Store"}
  /\ \E k \in StoreKeys(K, om, heap), v \in StoreValues(V) :
       /\ HasKey(om, k) \/ Len(om) < MaxEntries
       /\ om' = Store(om, k, v)
       /\ heap' = IF k.addr > heap THEN k.addr ELSE heap
  /\ op' = "Store"
  /\ UNCHANGED <<K, V, pre, data, out, res>>

\* om.MarshalJSON()
DoMarshalJSON ==
  /\ op \in {"New", "Store"}
  /\ LET r == MarshalJSON(om) IN
     out' = [bytes |-> r.bytes, isnil |-> r.isnil, err |-> r.err,
             seen |-> r.seen, frags |-> r.frags, src |-> om]
  /\ op' = "MarshalJSON"
  /\ UNCHANGED <<K, V, om, heap, pre, data, res>>

(***************************************************************************)
(* The inputs handed to UnmarshalJSON: JSON objects of up to MaxMembers    *)
(* members, of which at most one is unusual (a key text that is no literal *)
(* of K, a value that is no V, a malformed or missing value, a nested      *)
(* object or array, a missing colon), with or without the closing brace    *)
(* and with or without bytes after it; and inputs that do not start an     *)
(* object.                                                                 *)
(***************************************************************************)
PlainKeyTexts ==
  CASE K = "int8"  -> {<<"7">>, <<"-", "1">>}
    [] K = "*int8" -> {<<"7">>, <<"-", "1">>}
    [] K = "bool"  -> {TrueText, FalseText}
    [] OTHER       -> {<<"a">>, <<"b">>}

OddKeyTexts ==
  CASE K \in {"int8", "*int8"} ->
         {NullText, <<"3", "0", "0">>, <<"a">>, <<>>, <<"1", ".", "5">>,
          <<" ", "7">>, <<"7", "x">>, TrueText}
    [] K = "bool" -> {NullText, <<"7">>, <<"t", "r", "u">>}
    [] K = "*string" -> {NullText, <<>>}
    [] OTHER -> {NullText}

NestedObject == <<"{", Q, "b", Q, ":", "1", "}">>

PlainValueText == IF V = "string" THEN Quote(<<"t">>) ELSE <<"1">>

OddValueTexts ==
  {IF V = "string" THEN <<"1">> ELSE Quote(<<"t">>), <<"3", "0", "0">>,
   NullText, <<"x">>, <<>>, NestedObject,
   <<"[", "1", "]">>, <<"{">>, <<"[", "x", "]">>,
   <<"{", Q, "b", Q, ":", "x", "}">>, <<" ", "1">>,
   <<"1", "e", "4", "0", "0">>, <<"[", "1", "e", "4", "0", "0", "]">>}

Member(k, v) == Quote(k) \o <<":">> \o v

PlainMembers == {Member(k, PlainValueText) : k \in PlainKeyTexts}

AKey == CHOOSE k \in PlainKeyTexts : TRUE

OddMembers ==
  {Member(AKey, v) : v \in OddValueTexts}
  \cup {Member(k, PlainValueText) : k \in OddKeyTexts}
  \cup {Quote(AKey) \o <<" ">> \o PlainValueText,
        Quote(AKey),
        <<"1", ":">> \o PlainValueText,
        <<"{">>,
        <<"[", "]">>}

\* the sequences of up to MaxMembers usual members
PlainSeqs == UNION {[1..n -> PlainMembers] : n \in 0..MaxMembers}

\* the sequences of up to MaxMembers members of which one is unusual
OddSeqs ==
  UNION {{[m EXCEPT ![i] = o] : i \in 1..Len(m), o \in OddMembers} :
           m \in PlainSeqs}

RECURSIVE Join(_, _)
Join(ms, i) ==
  IF i > Len(ms) THEN <<>>
  ELSE (IF i = 1 THEN <<>> ELSE <<",">>) \o ms[i] \o Join(ms, i + 1)

\* what may follow the closing brace: scalars, strings and arrays, which
\* the loop reads as tokens, and bytes that end the call with an error
Trailers ==
  {<<" ", "1">>, <<"[", "]">>, <<"[", Q, "a", Q, "]", Q, "a", Q>>}

BadTrailers == {<<"{">>, <<"}">>, <<"x">>, <<"1", "e", "4", "0", "0">>}

Tails ==
  {<<"}">>, <<>>, <<" ", "}", " ">>, <<" ">>}
  \cup {<<"}">> \o t : t \in Trailers \cup BadTrailers}

\* a second value text of V, and the sequences of usual members followed
\* by their first key once more, with the second value
SecondValueText == IF V = "string" THEN Quote(<<"u">>) ELSE <<"2">>

RepeatSeqs ==
  {Append(ms, Member(k, SecondValueText)) :
     ms \in {m \in PlainSeqs : Len(m) > 0}, k \in PlainKeyTexts}

Objects ==
  {<<"{">> \o Join(ms, 1) \o t : ms \in PlainSeqs, t \in Tails}
  \cup {<<"{">> \o Join(ms, 1) \o t : ms \in OddSeqs, t \in {<<"}">>, <<>>}}
  \cup {<<"{">> \o Join(ms, 1) \o <<"}">> \o t :
          ms \in RepeatSeqs, t \in {<<>>} \cup Trailers \cup BadTrailers}

NonObjects ==
  {<<>>, <<" ">>, <<"[", "1", ",", "2", "]">>, <<"1">>, Quote(<<"a">>),
   TrueText, NullText, <<"x">>, <<"}">>, <<" ", "[">>, <<Q, "a">>,
   <<"1", " ", "{", "}">>}

Inputs == Objects \cup NonObjects

\* target.UnmarshalJSON(d), where target is om or a new map
DoUnmarshalJSON ==
  /\ op \in {"New", "Store", "MarshalJSON"}
  /\ \E d \in IF op = "MarshalJSON"
             THEN (IF out.isnil THEN {} ELSE {out.bytes})
             ELSE Inputs,
        target \in IF op = "MarshalJSON" THEN {<<>>} ELSE {om} :
       \E r \in {UnmarshalJSON(K, V, target, d, heap)} :
       /\ om' = r.om
       /\ heap' = r.heap
       /\ pre' = target
       /\ data' = d
       /\ res' = [err |-> r.err, depth |-> r.depth, offset |-> r.offset,
                  tokens |-> r.tokens, keys |-> r.keys, vals |-> r.vals,
                  stored |-> r.stored, valErr |-> r.valErr,
                  valErrAt |-> r.valErrAt, toks |-> r.toks,
                  minDepth |-> r.minDepth, closes |-> r.closes, site |-> r.site]
  /\ op' = "UnmarshalJSON"
  /\ UNCHANGED <<K, V, out>>

Next == DoStore \/ DoMarshalJSON \/ DoUnmarshalJSON

Spec == Init /\ [][Next]_vars

(***************************************************************************)
(* Properties                                                              *)
(***************************************************************************)
\* the scanner opens MaxNestingDepth arrays and objects and no more,
\* whatever follows the byte that opens one too many
NestingLimit ==
  /\ scanValue(<<"[", "]">>, 1, MaxNestingDepth - 1) = ScanOk(3)
  /\ scanValue(<<"[", "]">>, 1, MaxNestingDepth) = ScanDepth
  /\ scanValue(<<"{">>, 1, MaxNestingDepth) = ScanDepth
  /\ scanValue(<<"[", "[">>, 1, MaxNestingDepth - 1) = ScanDepth
  /\ scanValue(<<"[", "{", "}", "]">>, 1, MaxNestingDepth - 2) = ScanOk(5)
  /\ readScanned(NewDecoder, <<"[">>, ScanDepth).err
       = Err("json.SyntaxError", -1, "exceeded max depth")
  /\ checkedUnmarshal("int8", <<"[">>, Zero("int8"), ScanDepth).err
       = Err("json.SyntaxError", -1, "exceeded max depth")

RoundTrip ==
  op = "UnmarshalJSON" /\ ~out.isnil /\ data = out.bytes /\ pre = <<>>

\* two keys are the same key value: equal, or pointers to equal values
SameKey(a, b) ==
  /\ a.t = b.t
  /\ (a.addr = 0) = (b.addr = 0)
  /\ a.s = b.s
  /\ a.n = b.n

SamePairs(m1, m2) ==
  /\ Len(m1) = Len(m2)
  /\ \A i \in 1..Len(m1) :
       i <= Len(m2) => SameKey(m1[i].key, m2[i].key) /\ m1[i].val = m2[i].val

\* C1: decoding the bytes MarshalJSON returned for a map with a supported
\* key type and symmetric values into an empty map succeeds and yields the
\* same pairs in the same order.
C1_RoundTripIdentity ==
  (RoundTrip /\ SupportedKeyType(K) /\ V \in {"int8", "string"})
    => (res.err = NoErr /\ SamePairs(om, out.src))

KeyFragment(k) == addJsonKey(<<>>, k).buf

ValueFragment(v) == jsonMarshal(v).bs

EntryFails(e) ==
  addJsonKey(<<>>, e.key).err # NoErr \/ jsonMarshal(e.val).err # NoErr

RECURSIVE Fragments(_, _)
Fragments(m, i) ==
  IF i > Len(m) THEN <<>>
  ELSE (IF i > 1 THEN <<",">> ELSE <<>>)
       \o KeyFragment(m[i].key) \o <<":">> \o ValueFragment(m[i].val)
       \o Fragments(m, i + 1)

\* C2: for a map whose n entries all encode, MarshalJSON returns '{', the n
\* fragments key:value in insertion order separated by n-1 commas, and '}';
\* the empty map gives exactly {}.
C2_ObjectLayout ==
  (op = "MarshalJSON" /\ \A i \in 1..Len(out.src) : ~EntryFails(out.src[i]))
    => /\ out.err = NoErr
       /\ ~out.isnil
       /\ out.bytes = <<"{">> \o Fragments(out.src, 1) \o <<"}">>
       /\ (out.src = <<>> => out.bytes = <<"{", "}">>)

C2_Witness ==
  /\ op = "MarshalJSON"
  /\ Len(out.src) = 2
  /\ out.err = NoErr
  /\ out.src[1].key = Str(<<"b">>)
  /\ out.src[2].key = Str(<<"a">>)

FirstFailing(m) ==
  CHOOSE i \in 1..Len(m) :
    EntryFails(m[i]) /\ \A j \in 1..(i - 1) : ~EntryFails(m[j])

EntryError(e) ==
  IF ~SupportedKeyType(e.key.t)
  THEN Err("UnsupportedKeyTypeError", 0, e.key.t)
  ELSE IF jsonMarshal(e.key).err # NoErr THEN jsonMarshal(e.key).err
  ELSE jsonMarshal(e.val).err

\* C8: when some entry has an unsupported key type or a key or value that
\* fails to marshal, MarshalJSON returns the error of the first such entry
\* with a nil byte slice, and examines no entry after it.
C8_EncodeAllOrNothing ==
  (op = "MarshalJSON" /\ \E i \in 1..Len(out.src) : EntryFails(out.src[i]))
    => LET f == FirstFailing(out.src) IN
       /\ out.err = EntryError(out.src[f])
       /\ out.isnil
       /\ out.bytes = <<>>
       /\ out.seen = f

C8_Witness ==
  /\ op = "MarshalJSON"
  /\ Len(out.src) = 2
  /\ ~EntryFails(out.src[1])
  /\ out.src[2].key = Zero("nil")
  /\ out.err = Err("UnsupportedKeyTypeError", 0, "nil")
  /\ out.isnil

IsStringToken(f) ==
  /\ Len(f) >= 2
  /\ f[1] = Q
  /\ f[Len(f)] = Q
  /\ \A j \in 2..(Len(f) - 1) : f[j] # Q

\* C9: every key fragment addJsonKey writes for a supported key is a JSON
\* string token: the marshaled form for a string or non-nil *string, the
\* quoted token "null" for a nil *string, and the marshaled value between
\* two double quotes for a scalar or a pointer to a scalar.
C9_KeyFragmentIsString ==
  op = "MarshalJSON" =>
    /\ (SupportedKeyType(K) /\ out.err = NoErr => Len(out.frags) = Len(out.src))
    /\ \A i \in 1..Len(out.frags) :
         LET k == out.src[i].key
             f == out.frags[i]
         IN SupportedKeyType(k.t) =>
              /\ IsStringToken(f)
              /\ (k.t = "string" \/ (k.t = "*string" /\ k.addr # 0)
                    => f = Quote(k.s))
              /\ (k.t = "*string" /\ k.addr = 0 => f = Quote(NullText))
              /\ (k.t = "int8" \/ (k.t = "*int8" /\ k.addr # 0)
                    => f = Quote(FormatInt(k.n)))
              /\ (k.t = "*int8" /\ k.addr = 0 => f = Quote(NullText))
              /\ (k.t = "bool"
                    => f = Quote(IF k.n = 1 THEN TrueText ELSE FalseText))

C9_Witness ==
  /\ op = "MarshalJSON"
  /\ K = "*string"
  /\ Len(out.frags) = 2
  /\ out.src[1].key.addr # 0
  /\ out.src[2].key.addr = 0
  /\ out.frags[2] = Quote(NullText)

Decoded == op = "UnmarshalJSON"

\* C3: a value that fails to decode aborts the call: an error is returned,
\* the pair whose value failed is not stored and no later value is decoded.
C3_ValueFailureAborts ==
  (Decoded /\ res.valErr # NoErr)
    => /\ res.err # NoErr
       /\ Len(res.stored) = res.valErrAt - 1
       /\ res.vals = res.valErrAt

\* the byte offset of the value of the first member, whose key text is k
FirstValueOffset(k) == Len(Quote(k)) + 2

\* C4: an object as the value of a top-level key fails with a SyntaxError
\* at the offset of the inner '{', and no entry is stored for the key.
C4_NestedObjectRejected ==
  \A k \in PlainKeyTexts :
    (Decoded /\ SupportedKeyType(K)
       /\ data = <<"{">> \o Member(k, NestedObject) \o <<"}">>)
      => /\ res.err = SyntaxError(FirstValueOffset(k), MsgInvalidBrace)
         /\ res.stored = <<>>
         /\ om = pre

\* the well-formed tokens other than '{' that an input may start with
OtherFirstTokens == {<<"[">>, <<"1">>, Quote(<<"a">>), TrueText, NullText}

\* the bytes from buf[j] on are those of the token t, and t ends there
TokenAt(buf, j, t) ==
  /\ j + Len(t) - 1 <= Len(buf)
  /\ SubSeq(buf, j, j + Len(t) - 1) = t
  /\ \/ t = <<"[">>
     \/ j + Len(t) > Len(buf)
     \/ buf[j + Len(t)] = " "

\* the input starts, after spaces, with a well-formed token that is not '{'
FirstTokenOther(buf) ==
  \E j \in 1..Len(buf), t \in OtherFirstTokens :
    /\ \A i \in 1..(j - 1) : buf[i] = " "
    /\ TokenAt(buf, j, t)

\* C5: a first token other than '{' gives the SyntaxError "does not start
\* with '{'" at offset 0, no further token is read, and the map is as it
\* was before the call.
C5_NoOpeningBrace ==
  (Decoded /\ FirstTokenOther(data))
    => /\ res.err = SyntaxError(0, MsgNoStart)
       /\ res.tokens = 1
       /\ om = pre

C5_Witness ==
  /\ Decoded
  /\ data = <<"[", "1", ",", "2", "]">>
  /\ Len(pre) = 2
  /\ om = pre
  /\ res.err = SyntaxError(0, MsgNoStart)

\* the input without the spaces at its end
RECURSIVE TrimRight(_)
TrimRight(buf) ==
  IF buf # <<>> /\ IsSpace(buf[Len(buf)])
  THEN TrimRight(SubSeq(buf, 1, Len(buf) - 1)) ELSE buf

\* an object of usual members that lacks its closing brace
Unclosed(buf) ==
  \E ms \in PlainSeqs : TrimRight(buf) = <<"{">> \o Join(ms, 1)

\* C6: when the token stream starts with '{' and ends with depth >= 0, the
\* call never succeeds: the SyntaxError "does not end with '}'" is
\* returned, at the decoder's input offset at the end of the stream, which
\* is the number of bytes of the input up to the end of its last token.
C6_NoClosingBrace ==
  /\ (Decoded /\ res.site \in {"end", "ok"} /\ res.depth >= 0)
       => res.err = SyntaxError(Len(TrimRight(data)), MsgNoEnd)
  /\ (Decoded /\ SupportedKeyType(K) /\ Unclosed(data))
       => /\ res.err = SyntaxError(Len(TrimRight(data)), MsgNoEnd)
          /\ res.depth = 0
          /\ res.site = "end"

C6_Witness ==
  /\ Decoded
  /\ data = <<"{">> \o Member(<<"a">>, <<"1">>)
  /\ Len(res.stored) = 1
  /\ res.depth = 0
  /\ res.err = SyntaxError(6, MsgNoEnd)

RECURSIVE Squeeze(_)
Squeeze(buf) ==
  IF buf = <<>> THEN <<>>
  ELSE IF IsSpace(buf[1]) THEN Squeeze(Tail(buf))
  ELSE <<buf[1]>> \o Squeeze(Tail(buf))

\* C7: the empty input and the input {} decode without error and leave the
\* map as it was, whatever it held and whatever K and V are.
C7_NoKeyNoChange ==
  (Decoded /\ Squeeze(data) \in {<<>>, <<"{", "}">>})
    => (res.err = NoErr /\ om = pre /\ res.stored = <<>>)

C7_Witness ==
  /\ Decoded
  /\ data = <<"{", "}">>
  /\ K = "struct"
  /\ pre # <<>>
  /\ om = pre
  /\ res.err = NoErr

RECURSIVE StoreAll(_, _, _)
StoreAll(m, ps, i) ==
  IF i > Len(ps) THEN m
  ELSE StoreAll(Store(m, ps[i].key, ps[i].val), ps, i + 1)

\* the key texts that the parser of the scalar key type K rejects, and
\* the error json.Unmarshal gives for each
BadKeyTexts ==
  CASE K \in {"int8", "*int8"} ->
         {<<"3", "0", "0">>, <<"a">>, <<>>, <<"1", ".", "5">>, <<"7", "x">>,
          TrueText}
    [] K = "bool" -> {<<"7">>, <<"t", "r", "u">>}
    [] OTHER -> {}

KeyParseError(k) ==
  CASE k \in {<<"3", "0", "0">>, <<"1", ".", "5">>, <<"7">>} ->
         Err("json.UnmarshalTypeError", -1, "number")
    [] k = TrueText -> Err("json.UnmarshalTypeError", -1, "bool")
    [] k = <<>> -> Err("json.SyntaxError", -1, "unexpected end of JSON input")
    [] k = <<"7", "x">> ->
         Err("json.SyntaxError", -1, "invalid character after top-level value")
    [] OTHER -> Err("json.SyntaxError", -1, "invalid character")

\* the key and the value that the usual members stand for
PlainKeyOf(p) ==
  CASE K = "bool"  -> Bool(p = TrueText)
    [] K = "int8"  -> Int8(IF p = <<"7">> THEN 7 ELSE -1)
    [] K = "*int8" -> GoVal(K, 1, <<>>, IF p = <<"7">> THEN 7 ELSE -1)
    [] K = "*string" -> GoVal(K, 1, p, 0)
    [] OTHER       -> Str(p)

PlainValue ==
  CASE V = "string" -> Str(<<"t">>)
    [] V = "int8"   -> Int8(1)
    [] OTHER        -> GoVal("float64", 0, <<"1">>, 0)

\* the map pre after the pair of the usual member with key text p is stored
WithPlain(p) ==
  IF IsPointer(K) THEN Append(pre, Entry(PlainKeyOf(p), PlainValue))
  ELSE Store(pre, PlainKeyOf(p), PlainValue)

\* C10: a key token the parser of the scalar key type rejects ends the call
\* with the parser's error; the value after it is not decoded, that pair
\* and the later ones are not stored, and the pairs stored before remain.
C10_KeyFailureAborts ==
  /\ (Decoded /\ res.site = "key" /\ res.err.type # "*UnsupportedKeyTypeError")
       => /\ res.err.type \in {"json.SyntaxError", "json.UnmarshalTypeError"}
          /\ res.vals = res.keys - 1
          /\ Len(res.stored) = res.keys - 1
          /\ om = StoreAll(pre, res.stored, 1)
          /\ \A i \in 1..Len(pre) : i <= Len(om) /\ om[i].key = pre[i].key
  /\ \A p \in PlainKeyTexts, k \in BadKeyTexts :
       /\ (Decoded /\ data = <<"{">> \o Member(p, PlainValueText) \o <<",">>
                              \o Member(k, PlainValueText) \o <<"}">>)
            => /\ res.err = KeyParseError(k)
               /\ res.site = "key"
               /\ res.keys = 2
               /\ res.vals = 1
               /\ Len(res.stored) = 1
               /\ SamePairs(om, WithPlain(p))
       /\ (Decoded /\ data = <<"{">> \o Member(k, PlainValueText) \o <<",">>
                              \o Member(p, PlainValueText) \o <<"}">>)
            => /\ res.err = KeyParseError(k)
               /\ res.site = "key"
               /\ res.keys = 1
               /\ res.vals = 0
               /\ res.stored = <<>>
               /\ om = pre

C10_Witness ==
  /\ Decoded
  /\ K = "int8"
  /\ data = <<"{">> \o Member(<<"7">>, PlainValueText) \o <<",">>
              \o Member(<<"3", "0", "0">>, PlainValueText) \o <<"}">>
  /\ Len(pre) = 1
  /\ pre[1].key = Int8(-1)
  /\ Len(om) = 2
  /\ om[2].key = Int8(7)
  /\ res.err.type = "json.UnmarshalTypeError"

(***************************************************************************)
(* Keys of pointer type made by decode                                     *)
(***************************************************************************)
\* the addresses of the pointer keys of the map m
KeyAddrs(m) == {m[i].key.addr : i \in 1..Len(m)} \ {0}

\* the i-th key handed to Store is a pointer allocated by this call: it is
\* no key of the map before the call or of the map last encoded, and no
\* other key of this call
NewPointer(i) ==
  LET k == res.stored[i].key IN
  /\ k.addr # 0
  /\ k.addr \notin KeyAddrs(pre) \cup KeyAddrs(out.src)
  /\ \A j \in 1..Len(res.stored) : j # i => res.stored[j].key.addr # k.addr

\* C11: with K = *string every key token is stored; the key token "null"
\* gives the nil key, and any other key token gives a newly allocated
\* non-nil pointer to the string of the token.
C11_NullTokenIsNilKey ==
  (Decoded /\ K = "*string") =>
    /\ Len(res.stored) = Len(res.toks)
    /\ \A i \in 1..Len(res.toks) :
         IF res.toks[i] = Str(NullText)
         THEN res.stored[i].key = Zero("*string")
         ELSE /\ NewPointer(i)
              /\ res.stored[i].key.t = "*string"
              /\ res.stored[i].key.s = res.toks[i].s

C11_Witness ==
  /\ Decoded /\ K = "*string"
  /\ \E i, j \in 1..Len(res.toks) :
       /\ res.toks[i] = Str(NullText)
       /\ res.stored[i].key = Zero("*string")
       /\ res.toks[j] = Str(<<"a">>)
       /\ res.stored[j].key.addr # 0

(***************************************************************************)
(* Decoding into a map of an unsupported key type                          *)
(***************************************************************************)
\* the error MarshalJSON returns for a key of the unsupported type k
EncodeKeyError(k) == addJsonKey(<<>>, Zero(ZeroKeyType(k))).err

\* with an unsupported K nothing is stored and no value is decoded, and the
\* call returns at the first key token
UnsupportedStopsAtKey ==
  (Decoded /\ ~SupportedKeyType(K)) =>
    /\ om = pre
    /\ res.stored = <<>>
    /\ res.vals = 0
    /\ res.keys <= 1
    /\ res.keys = 1 <=> res.site = "key"

\* C12: with an unsupported K, UnmarshalJSON returns at the first key token,
\* before decoding its value, the same UnsupportedKeyTypeError as encode,
\* carrying the type of K; nothing is stored and the map is unchanged.
C12_UnsupportedKeySameError ==
  /\ UnsupportedStopsAtKey
  /\ (Decoded /\ ~SupportedKeyType(K) /\ res.keys = 1) =>
       res.err = EncodeKeyError(K)

\* what the code returns instead: a pointer to the error type of encode
C12_PointerError ==
  (Decoded /\ ~SupportedKeyType(K) /\ res.keys = 1) =>
    /\ res.err.type = "*UnsupportedKeyTypeError"
    /\ EncodeKeyError(K).type = "UnsupportedKeyTypeError"
    /\ res.err.msg = EncodeKeyError(K).msg

(***************************************************************************)
(* The order of the entries after decode                                   *)
(***************************************************************************)
SecondValue ==
  CASE V = "string" -> Str(<<"u">>)
    [] V = "int8"   -> Int8(2)
    [] OTHER        -> GoVal("float64", 0, <<"2">>, 0)

\* ps[i] is the first pair of ps with its key
FirstAt(ps, i) == \A j \in 1..(i - 1) : ps[j].key # ps[i].key

\* the number of different keys among the first i pairs of ps
Rank(ps, i) == Cardinality({j \in 1..i : FirstAt(ps, j)})

\* the place of the last pair of ps with the key of ps[i]
LastOf(ps, i) ==
  CHOOSE j \in i..Len(ps) :
    /\ ps[j].key = ps[i].key
    /\ \A l \in (j + 1)..Len(ps) : ps[l].key # ps[i].key

\* m holds the keys of the pairs ps in the order of their first occurrence,
\* each with the value of its last occurrence
AppendOrUpdate(m, ps) ==
  /\ Len(m) = Rank(ps, Len(ps))
  /\ \A i \in 1..Len(ps) :
       FirstAt(ps, i) =>
         /\ Rank(ps, i) <= Len(m)
         /\ m[Rank(ps, i)] = Entry(ps[i].key, ps[LastOf(ps, i)].val)

\* the key text of the usual member m
KeyTextOf(m) ==
  CHOOSE k \in PlainKeyTexts :
    \E v \in {PlainValueText, SecondValueText} : m = Member(k, v)

\* the pairs the usual members ms stand for, in their order
PairsOf(ms) ==
  [i \in 1..Len(ms) |->
     Entry(PlainKeyOf(KeyTextOf(ms[i])),
           IF ms[i] = Member(KeyTextOf(ms[i]), SecondValueText)
           THEN SecondValue ELSE PlainValue)]

\* the pairs handed to Store are those of the members ms, in their order
StoredAre(ms) ==
  /\ Len(res.stored) = Len(ms)
  /\ \A i \in 1..Len(ms) :
       /\ i <= Len(res.stored)
       /\ res.stored[i].val = PairsOf(ms)[i].val
       /\ SameKey(res.stored[i].key, PairsOf(ms)[i].key)

\* every pair handed to Store is a new entry, after those the map held
AllAppended ==
  /\ Len(om) = Len(pre) + Len(res.stored)
  /\ \A i \in 1..Len(om) :
       om[i] = (IF i <= Len(pre) THEN pre[i] ELSE res.stored[i - Len(pre)])
  /\ \A i \in 1..Len(res.stored) : NewPointer(i)

\* the map m with every non-nil pointer key replaced by what it points to
ByText(m) ==
  [i \in 1..Len(m) |->
     Entry(IF m[i].key.addr = 0 THEN m[i].key
           ELSE [m[i].key EXCEPT !.addr = 1],
           m[i].val)]

\* no two keys of m stand for the same key text
DistinctTexts(m) ==
  \A i, j \in 1..Len(m) : i # j => ByText(m)[i].key # ByText(m)[j].key

\* C13 (as stated): a key that occurs in the input, or occurs in it more
\* than once, has one entry after a successful decode: at the place it had
\* in the map or at that of its first occurrence, with the value of its
\* last occurrence.
C13_OneEntryPerKeyText ==
  \A ms \in PlainSeqs \cup RepeatSeqs :
    (Decoded /\ SupportedKeyType(K) /\ DistinctTexts(pre)
       /\ data = <<"{">> \o Join(ms, 1) \o <<"}">>)
      => /\ res.err = NoErr
         /\ AppendOrUpdate(ByText(om), ByText(pre) \o PairsOf(ms))

\* C13: a successful decode has handed one pair to Store per key token, in
\* the order of the input, and no call of decode removes an entry.  With K
\* a type whose values are no pointers, the entries the map held keep their
\* place, with the value of the last pair of their key if there is one, and
\* new keys follow in the order of their first occurrence with the value of
\* their last.  With K a pointer type every key token other than null is a
\* new pointer, so that every pair is a new entry, also when its key text
\* is that of an entry of the map or of an earlier pair of the input.
C13_StoreInInputOrder ==
  /\ (Decoded /\ res.err = NoErr) =>
       /\ Len(res.stored) = Len(res.toks)
       /\ AppendOrUpdate(om, pre \o res.stored)
  /\ Decoded =>
       \A i \in 1..Len(pre) : i <= Len(om) /\ om[i].key = pre[i].key
  /\ \A ms \in PlainSeqs \cup RepeatSeqs :
       (Decoded /\ SupportedKeyType(K)
          /\ data = <<"{">> \o Join(ms, 1) \o <<"}">>)
         => /\ res.err = NoErr
            /\ StoredAre(ms)
            /\ IF IsPointer(K) THEN AllAppended
               ELSE AppendOrUpdate(om, pre \o PairsOf(ms))

C13_Witness ==
  /\ Decoded /\ res.err = NoErr /\ K = "*string"
  /\ data = <<"{">> \o Member(<<"a">>, Quote(<<"t">>)) \o <<",">>
                   \o Member(<<"a">>, Quote(<<"u">>)) \o <<"}">>
  /\ Len(pre) = 1
  /\ pre[1].key.s = <<"a">>
  /\ pre[1].key.addr # 0
  /\ Len(om) = 3
  /\ \A i \in 1..3 : om[i].key.s = <<"a">>
  /\ om[2].key.addr # om[3].key.addr
  /\ om[2].val = Str(<<"t">>)
  /\ om[3].val = Str(<<"u">>)

\* the same order for the key types whose values are no pointers
C13_ValueKeyWitness ==
  /\ Decoded /\ res.err = NoErr /\ K = "string" /\ V = "int8"
  /\ pre = <<Entry(Str(<<"b">>), Int8(2))>>
  /\ data = <<"{">> \o Member(<<"a">>, <<"1">>) \o <<",">>
                   \o Member(<<"b">>, <<"1">>) \o <<",">>
                   \o Member(<<"a">>, <<"2">>) \o <<"}">>
  /\ om = <<Entry(Str(<<"b">>), Int8(1)), Entry(Str(<<"a">>), Int8(2))>>

(***************************************************************************)
(* The key strings of one encoded object                                   *)
(***************************************************************************)
\* C14: the key fragments MarshalJSON writes for a map with a supported
\* key type are pairwise different.
C14_DistinctKeyFragments ==
  (op = "MarshalJSON" /\ SupportedKeyType(K) /\ out.err = NoErr) =>
    \A i, j \in 1..Len(out.frags) : i # j => out.frags[i] # out.frags[j]

\* the same for the key types whose values are no pointers
ValueKeysDistinct ==
  (op = "MarshalJSON" /\ K \in {"string", "int8", "bool"} /\ out.err = NoErr)
    => \A i, j \in 1..Len(out.frags) : i # j => out.frags[i] # out.frags[j]

(***************************************************************************)
(* Keys of a type that is a pointer to a scalar                            *)
(***************************************************************************)
\* C15: with K a pointer to a scalar, every key decode stores is a pointer
\* allocated by the call, never nil; the key token "null" gives a pointer
\* to the zero value, and decode adds no nil key to the map.
C15_ScalarPointerKeyIsNew ==
  (Decoded /\ K = "*int8") =>
    /\ Len(res.stored) <= Len(res.toks)
    /\ \A i \in 1..Len(res.stored) :
         /\ NewPointer(i)
         /\ res.stored[i].key.t = K
         /\ (res.toks[i] = Str(NullText) => res.stored[i].key.n = 0)
         /\ (res.toks[i] = Str(<<"7">>) => res.stored[i].key.n = 7)
    /\ \A i \in 1..Len(om) :
         om[i].key.addr = 0 => i <= Len(pre) /\ pre[i] = om[i]

C15_Witness ==
  /\ Decoded /\ K = "*int8" /\ res.err = NoErr
  /\ \E i \in 1..Len(res.stored) :
       /\ res.toks[i] = Str(NullText)
       /\ res.stored[i].key.addr # 0
       /\ res.stored[i].key.n = 0
       /\ \E j \in 1..Len(om) : om[j].key = res.stored[i].key

(***************************************************************************)
(* The depth counter                                                       *)
(***************************************************************************)
\* C16: depth is 0 or -1 throughout a call, at most one '}' is counted,
\* and a call that read a token returns nil only with depth = -1 at the
\* end of the input, after exactly one '}'; a second '}' is no token but
\* an error of the tokenizer, which ends the call with depth = -1.
C16_DepthZeroOrMinusOne ==
  Decoded =>
    /\ res.depth \in {0, -1}
    /\ res.minDepth = res.depth
    /\ res.closes = 0 - res.depth
    /\ (res.err = NoErr /\ res.tokens > 0) =>
         res.site = "ok" /\ res.depth = -1 /\ res.closes = 1
    /\ res.site = "brace" => res.err.type = "SyntaxError"
    /\ \A ms \in PlainSeqs \cup RepeatSeqs :
         ((SupportedKeyType(K) \/ ms = <<>>)
            /\ data = <<"{">> \o Join(ms, 1) \o <<"}", "}">>)
           => /\ res.closes = 1
              /\ res.depth = -1
              /\ res.tokens = 2 + Len(ms)
              /\ res.err = Err("json.SyntaxError", -1,
                               "invalid character (token)")

C16_Witness ==
  /\ Decoded /\ res.site = "ok" /\ res.err = NoErr
  /\ res.depth = -1 /\ res.closes = 1
  /\ res.tokens > 3 /\ Len(res.stored) = 2

\* a '{' after the closing brace is refused as well
BraceAfterClose ==
  Decoded /\ res.site = "brace" /\ res.depth = -1

(***************************************************************************)
(* Tokens after the closing brace                                          *)
(***************************************************************************)
\* the number of tokens of a trailer of Trailers
TrailerTokens(t) ==
  CASE t = <<" ", "1">> -> 1
    [] t = <<"[", "]">> -> 2
    [] OTHER -> 4

\* the error a trailer of BadTrailers ends the call with
TrailerError(t) ==
  CASE t = <<"{">> -> Err("SyntaxError", Len(data), MsgInvalidBrace)
    [] t = <<"1", "e", "4", "0", "0">> ->
         Err("json.UnmarshalTypeError", -1, "number")
    [] t = <<"x">> -> Err("json.SyntaxError", -1, "invalid character")
    [] OTHER -> Err("json.SyntaxError", -1, "invalid character (token)")

\* the call has stored the pairs of the usual members ms, and the map is
\* what the object of these members alone makes of the map before the call
ObjectStored(ms) ==
  /\ StoredAre(ms)
  /\ res.closes = 1
  /\ res.depth = -1
  /\ IF IsPointer(K) THEN AllAppended
     ELSE AppendOrUpdate(om, pre \o PairsOf(ms))

\* C17: the tokens after the closing brace change nothing: scalars,
\* strings and array delimiters are read without a store and without an
\* error, so that a complete object followed by them decodes as the object
\* alone does; after the brace only a '{' or an error of the tokenizer
\* makes the call fail, and the map is then that of the object alone too.
C17_TrailingTokensSkipped ==
  /\ \A ms \in PlainSeqs \cup RepeatSeqs, t \in Trailers :
       (Decoded /\ (SupportedKeyType(K) \/ ms = <<>>)
          /\ data = <<"{">> \o Join(ms, 1) \o <<"}">> \o t) =>
         /\ res.err = NoErr
         /\ res.site = "ok"
         /\ res.tokens = 2 + Len(ms) + TrailerTokens(t)
         /\ ObjectStored(ms)
  /\ \A ms \in PlainSeqs \cup RepeatSeqs, t \in BadTrailers :
       (Decoded /\ (SupportedKeyType(K) \/ ms = <<>>)
          /\ data = <<"{">> \o Join(ms, 1) \o <<"}">> \o t) =>
         /\ res.err = TrailerError(t)
         /\ res.site = (IF t = <<"{">> THEN "brace" ELSE "token")
         /\ ObjectStored(ms)
  /\ (Decoded /\ res.depth = -1 /\ res.err # NoErr) =>
       /\ res.site \in {"brace", "token"}
       /\ Len(res.stored) = Len(res.toks)
       /\ AppendOrUpdate(om, pre \o res.stored)

C17_Witness ==
  /\ Decoded /\ K = "string" /\ res.err = NoErr /\ res.depth = -1
  /\ \E ms \in PlainSeqs :
       /\ Len(ms) = 2
       /\ data = <<"{">> \o Join(ms, 1)
                  \o <<"}", "[", Q, "a", Q, "]", Q, "a", Q>>
       /\ Len(res.stored) = Len(res.toks)
       /\ Len(res.stored) = 2
       /\ res.tokens = 2 + Len(res.toks) + 4

====
